---- MODULE Spec2Model ----
(***************************************************************************)
(* TRD Live Learning: the App component's upload / output-selection /      *)
(* generation / refinement handlers, together with the pure helpers of    *)
(* the file processor and of the Gemini service that they call.            *)
(*                                                                         *)
(* Strings are modelled as sequences of lexemes (one-character strings,    *)
(* or opaque chunks that contain none of the characters the code tests).   *)
(***************************************************************************)
EXTENDS Integers, Sequences, FiniteSets, TLC

\* ------------------------------------------------------------------ bounds
MaxStarts  == 2
MaxClock   == 1
MaxTasks   == 2
MaxMimeLen == 2
MaxNameLen == 2
MaxRespLen == 3

\* ------------------------------------------------------- sequence helpers
RECURSIVE SeqsUpTo(_, _)
SeqsUpTo(S, n) ==
  IF n = 0 THEN {<<>>}
  ELSE LET shorter == SeqsUpTo(S, n - 1)
       IN  shorter \cup {Append(s, x) : s \in {t \in shorter : Len(t) = n - 1}, x \in S}

StartsWith(s, p) == Len(s) >= Len(p) /\ SubSeq(s, 1, Len(p)) = p

\* JavaScript whitespace, as matched by \s and removed by String.trim
IsWs(c) == c \in {" ", "\n", "\t"}

RECURSIVE TrimStart(_)
TrimStart(s) == IF s # <<>> /\ IsWs(Head(s)) THEN TrimStart(Tail(s)) ELSE s

RECURSIVE TrimEnd(_)
TrimEnd(s) ==
  IF s # <<>> /\ IsWs(s[Len(s)]) THEN TrimEnd(SubSeq(s, 1, Len(s) - 1)) ELSE s

\* String.prototype.trim
Trim(s) == TrimEnd(TrimStart(s))

\* String.prototype.toLowerCase on one lexeme
LowerLexeme(c) ==
  CASE c = "H" -> "h"
    [] c = "T" -> "t"
    [] c = "M" -> "m"
    [] c = "L" -> "l"
    [] c = "IMAGE/" -> "image/"
    [] c = "TEXT/" -> "text/"
    [] c = "PDF" -> "pdf"
    [] c = ".CSV" -> ".csv"
    [] c = ".PNG" -> ".png"
    [] c = "FIELD-SIMULATOR" -> "field-simulator"
    [] c = "AUTO" -> "auto"
    [] OTHER -> c

ToLowerCase(s) == [i \in 1..Len(s) |-> LowerLexeme(s[i])]

\* ------------------------------------------------- services/gemini.ts
Fence == <<"BACKTICK", "BACKTICK", "BACKTICK">>
HtmlFence == <<"BACKTICK", "BACKTICK", "BACKTICK", "h", "t", "m", "l">>

\* text.replace(/^FENCEhtml\s*/i, ''), FENCE being three BACKTICK characters
StripLeadingHtmlFence(s) ==
  IF StartsWith(ToLowerCase(s), HtmlFence)
  THEN TrimStart(SubSeq(s, Len(HtmlFence) + 1, Len(s)))
  ELSE s

\* text.replace(/^FENCE\s*/i, '')
StripLeadingFence(s) ==
  IF StartsWith(s, Fence) THEN TrimStart(SubSeq(s, Len(Fence) + 1, Len(s))) ELSE s

\* positions where /FENCE\s*$/ matches
TrailingFenceAt(s) ==
  {i \in 1..Len(s) : /\ i + 2 <= Len(s)
                     /\ SubSeq(s, i, i + 2) = Fence
                     /\ \A j \in (i + 3)..Len(s) : IsWs(s[j])}

\* text.replace(/FENCE\s*$/i, ''): the leftmost match is removed
StripTrailingFence(s) ==
  IF TrailingFenceAt(s) = {} THEN s
  ELSE LET i == CHOOSE k \in TrailingFenceAt(s) : \A m \in TrailingFenceAt(s) : k <= m
       IN  SubSeq(s, 1, i - 1)

cleanResponse(text) ==
  Trim(StripTrailingFence(StripLeadingFence(StripLeadingHtmlFence(text))))

\* ------------------------------------------- services/file-processor.ts
SupportedFileTypes == {"image", "pdf", "csv", "excel", "text", "markdown", "video"}
Unsupported == "unsupported"

EndsWith(name, ext) == name # <<>> /\ name[Len(name)] = ext
Includes(s, lexeme) == \E i \in 1..Len(s) : s[i] = lexeme

VideoExts == {".mp4", ".mov", ".webm", ".avi", ".mkv"}
ImageExts == {".jpg", ".jpeg", ".png", ".gif", ".webp", ".svg", ".bmp"}

\* detectFileType with the extension tests placed before the media-type tests
detectFileTypeExtensionFirst(fileType, fileName) ==
  LET mime == ToLowerCase(fileType)
      name == ToLowerCase(fileName)
  IN  IF EndsWith(name, ".csv") THEN "csv"
      ELSE IF EndsWith(name, ".xlsx") \/ EndsWith(name, ".xls") THEN "excel"
      ELSE IF EndsWith(name, ".md") \/ EndsWith(name, ".markdown") THEN "markdown"
      ELSE IF EndsWith(name, ".txt") THEN "text"
      ELSE IF EndsWith(name, ".pdf") THEN "pdf"
      ELSE IF \E e \in VideoExts : EndsWith(name, e) THEN "video"
      ELSE IF \E e \in ImageExts : EndsWith(name, e) THEN "image"
      ELSE IF StartsWith(mime, <<"image/">>) THEN "image"
      ELSE IF mime = <<"application/", "pdf">> THEN "pdf"
      ELSE IF mime = <<"text/", "csv">> THEN "csv"
      ELSE IF Includes(mime, "spreadsheet") \/ Includes(mime, "excel") THEN "excel"
      ELSE IF StartsWith(mime, <<"video/">>) THEN "video"
      ELSE IF mime = <<"text/", "markdown">> THEN "markdown"
      ELSE IF StartsWith(mime, <<"text/">>) THEN "text"
      ELSE Unsupported

\* FileProcessor.detectFileType; a thrown Error is the value Unsupported
detectFileType(fileType, fileName) ==
  LET mime == ToLowerCase(fileType)
      name == ToLowerCase(fileName)
  IN  IF StartsWith(mime, <<"image/">>) THEN "image"
      ELSE IF mime = <<"application/", "pdf">> THEN "pdf"
      ELSE IF mime = <<"text/", "csv">> THEN "csv"
      ELSE IF Includes(mime, "spreadsheet") \/ Includes(mime, "excel") THEN "excel"
      ELSE IF StartsWith(mime, <<"video/">>) THEN "video"
      ELSE IF mime = <<"text/", "markdown">> THEN "markdown"
      ELSE IF StartsWith(mime, <<"text/">>) THEN "text"
      ELSE IF EndsWith(name, ".csv") THEN "csv"
      ELSE IF EndsWith(name, ".xlsx") \/ EndsWith(name, ".xls") THEN "excel"
      ELSE IF EndsWith(name, ".md") \/ EndsWith(name, ".markdown") THEN "markdown"
      ELSE IF EndsWith(name, ".txt") THEN "text"
      ELSE IF EndsWith(name, ".pdf") THEN "pdf"
      ELSE IF \E e \in VideoExts : EndsWith(name, e) THEN "video"
      ELSE IF \E e \in ImageExts : EndsWith(name, e) THEN "image"
      ELSE Unsupported

\* ------------------------------------------------ components/InputArea
supportedExtensions ==
  {".jpg", ".jpeg", ".png", ".gif", ".webp", ".svg", ".bmp", ".pdf",
   ".csv", ".xlsx", ".xls", ".txt", ".md", ".markdown",
   ".mp4", ".webm", ".mov", ".avi", ".mkv"}

\* isFileSupported without its test mime.startsWith('text/')
isFileSupportedWithoutText(fileType, fileName) ==
  LET mime == ToLowerCase(fileType)
      name == ToLowerCase(fileName)
  IN  \/ StartsWith(mime, <<"image/">>)
      \/ StartsWith(mime, <<"video/">>)
      \/ mime = <<"application/", "pdf">>
      \/ mime = <<"text/", "csv">>
      \/ Includes(mime, "spreadsheet") \/ Includes(mime, "excel")
      \/ \E ext \in supportedExtensions : EndsWith(name, ext)

isFileSupported(fileType, fileName) ==
  LET mime == ToLowerCase(fileType)
      name == ToLowerCase(fileName)
  IN  \/ StartsWith(mime, <<"image/">>)
      \/ StartsWith(mime, <<"video/">>)
      \/ mime = <<"application/", "pdf">>
      \/ mime = <<"text/", "csv">>
      \/ Includes(mime, "spreadsheet") \/ Includes(mime, "excel")
      \/ StartsWith(mime, <<"text/">>)
      \/ \E ext \in supportedExtensions : EndsWith(name, ext)

\* --------------------------------------------- services/output-registry
OUTPUT_REGISTRY ==
  << [id |-> "field-simulator",        applicableInputs |-> {"text", "markdown", "pdf"}],
     [id |-> "damage-detective",       applicableInputs |-> {"image", "pdf"}],
     [id |-> "commission-tycoon",      applicableInputs |-> {"text", "markdown", "csv", "excel", "pdf"}],
     [id |-> "objection-arena",        applicableInputs |-> {"text", "markdown", "pdf"}],
     [id |-> "inspection-walkthrough", applicableInputs |-> {"image", "pdf", "text", "markdown"}],
     [id |-> "flashcard-drill",        applicableInputs |-> {"text", "markdown", "csv", "excel", "pdf"}],
     [id |-> "interactive-timeline",   applicableInputs |-> {"text", "markdown", "pdf", "csv"}],
     [id |-> "scenario-builder",       applicableInputs |-> {"text", "markdown", "pdf", "csv"}],
     [id |-> "pitch-perfector",        applicableInputs |-> {"text", "markdown", "pdf"}],
     [id |-> "auto",                   applicableInputs |-> SupportedFileTypes] >>

\* getApplicableOutputs without the test config.id !== 'auto'
getApplicableOutputsWithAuto(fileType) ==
  SelectSeq(OUTPUT_REGISTRY, LAMBDA config : fileType \in config.applicableInputs)

getApplicableOutputs(fileType) ==
  SelectSeq(OUTPUT_REGISTRY,
            LAMBDA config : config.id # "auto" /\ fileType \in config.applicableInputs)

\* ------------------------------------------------- services/gemini.ts
\* What ai.models.generateContent does: a response carrying text, a response
\* without text, or a rejection.
NoText == [kind |-> "absent", text |-> <<>>]
CallError == [kind |-> "error", text |-> <<>>]
TextOf(t) == [kind |-> "text", text |-> t]

validTypes ==
  << "field-simulator", "damage-detective", "commission-tycoon",
     "objection-arena", "inspection-walkthrough", "flashcard-drill",
     "interactive-timeline", "scenario-builder", "pitch-perfector" >>

\* getDefaultOutputType without its case 'video'
getDefaultOutputTypeWithoutVideo(fileType) ==
  CASE fileType = "image" -> "damage-detective"
    [] fileType \in {"csv", "excel"} -> "commission-tycoon"
    [] OTHER -> "flashcard-drill"

getDefaultOutputType(fileType) ==
  CASE fileType = "image" -> "damage-detective"
    [] fileType = "video" -> "inspection-walkthrough"
    [] fileType \in {"csv", "excel"} -> "commission-tycoon"
    [] OTHER -> "flashcard-drill"

IsQuote(c) == c \in {"'", "\""}

\* (response.text || '').trim().toLowerCase().replace(/['"]/g, '')
NormalizeAnswer(response) ==
  LET text == IF response.kind = "text" THEN response.text ELSE <<>>
  IN  SelectSeq(ToLowerCase(Trim(text)), LAMBDA c : ~IsQuote(c))

\* autoSelectOutputType without the validTypes.includes(result) test: any
\* non-empty answer is returned as it is, and the catch block rethrows
autoSelectOutputTypeUnvalidated(fileType, response) ==
  IF response.kind = "error"
  THEN [raised |-> TRUE, value |-> "none"]
  ELSE LET result == SelectSeq(ToLowerCase(Trim(response.text)),
                               LAMBDA c : c \notin {"'", "\""})
       IN  IF result # <<>>
           THEN [raised |-> FALSE, value |-> result[1]]
           ELSE [raised |-> FALSE, value |-> "flashcard-drill"]

\* autoSelectOutputType: [raised, value]; raised is TRUE when the promise
\* rejects.  The identifiers are single lexemes, so a string equals an
\* identifier exactly when it is that one lexeme.
autoSelectOutputType(fileType, response) ==
  IF response.kind = "error"
  THEN [raised |-> FALSE, value |-> getDefaultOutputType(fileType)]
  ELSE LET result == NormalizeAnswer(response)
       IN  IF \E i \in 1..Len(validTypes) : result = <<validTypes[i]>>
           THEN [raised |-> FALSE, value |-> result[1]]
           ELSE [raised |-> FALSE, value |-> getDefaultOutputType(fileType)]

\* generateTraining: [raised, html]
Placeholder == <<"<!-- Failed to generate content -->">>

generateTraining(response) ==
  IF response.kind = "error" THEN [raised |-> TRUE, html |-> <<>>]
  ELSE LET text == IF response.kind = "text" /\ response.text # <<>>
                   THEN response.text ELSE Placeholder
       IN  [raised |-> FALSE, html |-> cleanResponse(text)]

\* refineApp: [raised, html]
refineApp(currentHtml, response) ==
  IF response.kind = "error" THEN [raised |-> TRUE, html |-> <<>>]
  ELSE LET text == IF response.kind = "text" /\ response.text # <<>>
                   THEN response.text ELSE currentHtml
       IN  [raised |-> FALSE, html |-> cleanResponse(text)]

\* ================================================================ App
VARIABLES
  activeCreation,      \* useState<Creation | null>
  isGenerating,
  isRefining,
  history,             \* useState<Creation[]>
  pendingFile,         \* useState<ParsedFile | null>
  selectedOutputType,  \* useState<OutputType | null>
  showOutputSelector,
  processingFile,
  isAutoSelecting,
  tasks,               \* handler invocations suspended at an await
  uploads,             \* files handed to handleGenerate so far
  uuids,               \* values crypto.randomUUID has returned so far
  now,                 \* the last value read from the system clock
  starts,              \* uploads, refinements, exports and imports so far
  calls,               \* model requests issued for uploaded files
  extracted,           \* files for which fileProcessor.process resolved
  lastStep,            \* what the last handler step did that the user sees
  exported,            \* artifact files written by handleExport
  pin, pout            \* argument and result of the pure helper under test

vars == << activeCreation, isGenerating, isRefining, history, pendingFile,
           selectedOutputType, showOutputSelector, processingFile,
           isAutoSelecting, tasks, uploads, uuids, now, starts, calls,
           extracted, lastStep, exported, pin, pout >>

appVars == << activeCreation, isGenerating, isRefining, history, pendingFile,
              selectedOutputType, showOutputSelector, processingFile,
              isAutoSelecting, tasks, uploads, uuids, now, starts, calls,
              extracted, lastStep, exported >>

Slots == 1..MaxTasks

\* null values, shaped like the values they stand in for
NoCreation == [id |-> 0, name |-> <<>>, html |-> <<>>, outputType |-> "none",
               sourceFileType |-> "none", timestamp |-> 0]
NoFile == [fid |-> 0, type |-> "none", mimeType |-> <<>>, fileName |-> <<>>]
NoOutput == "none"

NoTask == [kind |-> "none", pc |-> "none", file |-> NoFile, outType |-> NoOutput,
           creation |-> NoCreation, seeks |-> 0, replaced |-> NoCreation]

\* op: the asynchronous operation that the step completed, "none" for a
\* step that completed none; alert: the step called alert(...); installed:
\* it called setActiveCreation with a creation
NoStep == [op |-> "none", alert |-> FALSE, installed |-> FALSE]

Step(op, alert, installed) == [op |-> op, alert |-> alert, installed |-> installed]

\* Files the user can pick: declared media type and name
UploadInputs ==
  { [type |-> <<"IMAGE/", "png">>,                   name |-> <<"a", ".png">>],
    [type |-> <<"video/", "mp4">>,                   name |-> <<"a", ".mp4">>],
    [type |-> <<"application/", "octet-stream">>,    name |-> <<"a", ".exe">>] }

\* Behaviours of the model call seen by each caller
AutoSelectResponses ==
  { TextOf(<<" ", "\"", "FIELD-SIMULATOR", "\"", "\n">>), TextOf(<<"auto">>),
    NoText, CallError }
GenerateResponses ==
  { TextOf(<<"BACKTICK", "BACKTICK", "BACKTICK", "h", "t", "m", "l", "\n", "<p>",
             "\n", "BACKTICK", "BACKTICK", "BACKTICK">>),
    TextOf(<<"BACKTICK", "BACKTICK", "BACKTICK", "\n", "BACKTICK", "BACKTICK", "BACKTICK">>) }
RefineResponses == { TextOf(<<"<q>">>), TextOf(<<" ">>) }

\* frameCount of processVideo for a video of at most 45 seconds
MinFrames == 3

\* ------------------------------------------------------ what is rendered
isFocused == activeCreation # NoCreation \/ isGenerating

\* {showOutputSelector && pendingFile && <OutputSelector/>}: a full-screen
\* overlay above the upload area, the history and the preview
ModalOpen == showOutputSelector /\ pendingFile # NoFile

\* InputArea: disabled={isFocused}, isGenerating={isGenerating || processingFile}
UploadEnabled == ~isFocused /\ ~(isGenerating \/ processingFile) /\ ~ModalOpen

\* LivePreview is pointer-events-none unless isFocused
PreviewEnabled == isFocused /\ ~ModalOpen

\* the refinement form: rendered when !isLoading and creation.html, and
\* handleRefineSubmit returns while isRefining
RefineEnabled ==
  /\ PreviewEnabled
  /\ ~isGenerating
  /\ activeCreation # NoCreation /\ activeCreation.html # <<>>
  /\ ~isRefining

FreeSlots == {s \in Slots : tasks[s].kind = "none"}
FreeSlot == CHOOSE s \in FreeSlots : \A r \in FreeSlots : s <= r

ClockReadings == {t \in {now, now + 1} : t <= MaxClock}

\* the App as first rendered
AppInit ==
  /\ activeCreation = NoCreation
  /\ isGenerating = FALSE
  /\ isRefining = FALSE
  /\ history = <<>>
  /\ pendingFile = NoFile
  /\ selectedOutputType = NoOutput
  /\ showOutputSelector = FALSE
  /\ processingFile = FALSE
  /\ isAutoSelecting = FALSE
  /\ tasks = [s \in Slots |-> NoTask]
  /\ uploads = 0
  /\ uuids = 0
  /\ now = 0
  /\ starts = 0
  /\ calls = {}
  /\ extracted = {}
  /\ lastStep = NoStep
  /\ exported = {}

Init ==
  /\ AppInit
  /\ pin = <<>>
  /\ pout = <<>>

\* ------------------------------------------------ upload and extraction
\* InputArea.handleFile, rejected branch
HandleFileRejected(f) ==
  /\ UploadEnabled
  /\ ~isFileSupported(f.type, f.name)
  /\ lastStep' = Step("handleFile", TRUE, FALSE)
  /\ UNCHANGED << activeCreation, isGenerating, isRefining, history, pendingFile,
                  selectedOutputType, showOutputSelector, processingFile,
                  isAutoSelecting, tasks, uploads, uuids, now, starts, calls,
                  extracted, pin, pout, exported >>

\* where FileProcessor.process first suspends for a file of this type
FirstAwait(type) ==
  CASE type = Unsupported -> "threw"
    [] type = "image" -> "reader"
    [] type = "video" -> "metadata"
    [] OTHER -> "await"

\* InputArea.handleFile, accepted branch, then App.handleGenerate up to
\* await fileProcessor.process(file)
handleGenerate(f) ==
  /\ UploadEnabled
  /\ isFileSupported(f.type, f.name)
  /\ starts < MaxStarts
  /\ FreeSlots # {}
  /\ LET type == detectFileType(f.type, f.name)
         parsed == [fid |-> uploads + 1, type |-> type, mimeType |-> f.type,
                    fileName |-> f.name]
     IN  tasks' = [tasks EXCEPT ![FreeSlot] =
                     [NoTask EXCEPT !.kind = "extract", !.pc = FirstAwait(type),
                                    !.file = parsed]]
  /\ uploads' = uploads + 1
  /\ starts' = starts + 1
  /\ processingFile' = TRUE
  /\ lastStep' = NoStep
  /\ UNCHANGED << activeCreation, isGenerating, isRefining, history, pendingFile,
                  selectedOutputType, showOutputSelector, isAutoSelecting,
                  uuids, now, calls, extracted, pin, pout, exported >>

\* handleGenerate after process resolved: try body and finally
ProcessResolvedInto(s) ==
  /\ pendingFile' = tasks[s].file
  /\ showOutputSelector' = TRUE
  /\ processingFile' = FALSE
  /\ extracted' = extracted \cup {tasks[s].file.fid}
  /\ tasks' = [tasks EXCEPT ![s] = NoTask]
  /\ lastStep' = Step("extract", FALSE, FALSE)
  /\ UNCHANGED << activeCreation, isGenerating, isRefining, history,
                  selectedOutputType, isAutoSelecting, uploads, uuids, now,
                  starts, calls, pin, pout, exported >>

\* the catch block of handleGenerate going on to the output selector
ProcessRejectedOpeningSelector(s) ==
  /\ pendingFile' = tasks[s].file
  /\ showOutputSelector' = TRUE
  /\ processingFile' = FALSE
  /\ tasks' = [tasks EXCEPT ![s] = NoTask]
  /\ lastStep' = Step("extract", TRUE, FALSE)
  /\ UNCHANGED << activeCreation, isGenerating, isRefining, history,
                  selectedOutputType, isAutoSelecting, uploads, uuids, now,
                  starts, calls, extracted, pin, pout, exported >>

\* handleGenerate after process rejected: catch and finally
ProcessRejectedInto(s) ==
  /\ processingFile' = FALSE
  /\ tasks' = [tasks EXCEPT ![s] = NoTask]
  /\ lastStep' = Step("extract", TRUE, FALSE)
  /\ UNCHANGED << activeCreation, isGenerating, isRefining, history, pendingFile,
                  selectedOutputType, showOutputSelector, isAutoSelecting,
                  uploads, uuids, now, starts, calls, extracted, pin, pout, exported >>

\* processImage: reader.onload with a string result; processPdf, processCsv,
\* processExcel, processText: the awaited reads resolve
ProcessResolved(s) ==
  /\ tasks[s].kind = "extract"
  /\ tasks[s].pc \in {"reader", "await"}
  /\ ProcessResolvedInto(s)

\* detectFileType threw; reader.onerror or a non-string result; an awaited
\* read, the PDF library or the xlsx import rejected; video.onerror before
\* the metadata loaded
ProcessRejected(s) ==
  /\ tasks[s].kind = "extract"
  /\ tasks[s].pc \in {"threw", "reader", "await", "metadata"}
  /\ ProcessRejectedInto(s)

\* processVideo: video.onloadedmetadata, then the first seek is requested
VideoMetadataLoaded(s) ==
  /\ tasks[s].kind = "extract"
  /\ tasks[s].pc = "metadata"
  /\ tasks' = [tasks EXCEPT ![s].pc = "seek"]
  /\ lastStep' = NoStep
  /\ UNCHANGED << activeCreation, isGenerating, isRefining, history, pendingFile,
                  selectedOutputType, showOutputSelector, processingFile,
                  isAutoSelecting, uploads, uuids, now, starts, calls,
                  extracted, pin, pout, exported >>

\* processVideo: video.onseeked; the frame is captured and either the next
\* seek is requested or the loop ends and process resolves
VideoSeeked(s) ==
  /\ tasks[s].kind = "extract"
  /\ tasks[s].pc = "seek"
  /\ IF tasks[s].seeks + 1 < MinFrames
     THEN /\ tasks' = [tasks EXCEPT ![s].seeks = @ + 1]
          /\ lastStep' = NoStep
          /\ UNCHANGED << activeCreation, isGenerating, isRefining, history,
                          pendingFile, selectedOutputType, showOutputSelector,
                          processingFile, isAutoSelecting, uploads, uuids, now,
                          starts, calls, extracted, pin, pout, exported >>
     ELSE ProcessResolvedInto(s)

\* processVideo: the element reports an error during a seek.  video.onerror
\* is still the handler installed for the metadata wait; it rejects a promise
\* that is already resolved, which does nothing, and nothing else listens.
VideoSeekError(s) ==
  /\ tasks[s].kind = "extract"
  /\ tasks[s].pc = "seek"
  /\ tasks' = [tasks EXCEPT ![s].pc = "seekStalled"]
  /\ lastStep' = NoStep
  /\ UNCHANGED << activeCreation, isGenerating, isRefining, history, pendingFile,
                  selectedOutputType, showOutputSelector, processingFile,
                  isAutoSelecting, uploads, uuids, now, starts, calls,
                  extracted, pin, pout, exported >>

\* processVideo: the 30 second timer fires.  It rejects the metadata wait if
\* that is still pending, and is ignored by a promise already settled.
VideoLoadTimeout(s) ==
  /\ tasks[s].kind = "extract"
  /\ tasks[s].file.type = "video"
  /\ IF tasks[s].pc = "metadata"
     THEN ProcessRejectedInto(s)
     ELSE /\ lastStep' = NoStep
          /\ UNCHANGED << activeCreation, isGenerating, isRefining, history,
                          pendingFile, selectedOutputType, showOutputSelector,
                          processingFile, isAutoSelecting, tasks, uploads, uuids,
                          now, starts, calls, extracted, pin, pout, exported >>

\* --------------------------------------- output selection and generation
OutputChoices(fileType) ==
  {"auto"} \cup {getApplicableOutputs(fileType)[i].id :
                   i \in 1..Len(getApplicableOutputs(fileType))}

\* OutputSelector onSelect = setSelectedOutputType; every option button is
\* disabled while isAutoSelecting
SelectOutput(t) ==
  /\ ModalOpen
  /\ ~isAutoSelecting
  /\ t \in OutputChoices(pendingFile.type)
  /\ selectedOutputType' = t
  /\ lastStep' = NoStep
  /\ UNCHANGED << activeCreation, isGenerating, isRefining, history, pendingFile,
                  showOutputSelector, processingFile, isAutoSelecting, tasks,
                  uploads, uuids, now, starts, calls, extracted, pin, pout, exported >>

\* the footer Cancel button is never disabled
handleCancelSelection ==
  /\ ModalOpen
  /\ pendingFile' = NoFile
  /\ selectedOutputType' = NoOutput
  /\ showOutputSelector' = FALSE
  /\ lastStep' = NoStep
  /\ UNCHANGED << activeCreation, isGenerating, isRefining, history,
                  processingFile, isAutoSelecting, tasks, uploads, uuids, now,
                  starts, calls, extracted, pin, pout, exported >>

\* handleConfirmGeneration from setShowOutputSelector(false) to the request
\* that generateTraining sends
IssueGeneration(s, task, finalOutputType) ==
  /\ showOutputSelector' = FALSE
  /\ isGenerating' = TRUE
  /\ activeCreation' = NoCreation
  /\ calls' = calls \cup {[fid |-> task.file.fid, kind |-> "generate"]}
  /\ tasks' = [tasks EXCEPT ![s] = [task EXCEPT !.pc = "generate",
                                                !.outType = finalOutputType,
                                                !.replaced = activeCreation]]

\* Generate Training is disabled only by !selectedOutput
handleConfirmGeneration ==
  /\ ModalOpen
  /\ selectedOutputType # NoOutput
  /\ pendingFile # NoFile
  /\ FreeSlots # {}
  /\ LET s == FreeSlot
         task == [NoTask EXCEPT !.kind = "confirm", !.file = pendingFile]
     IN  IF selectedOutputType = "auto"
         THEN /\ isAutoSelecting' = TRUE
              /\ calls' = calls \cup {[fid |-> pendingFile.fid, kind |-> "autoSelect"]}
              /\ tasks' = [tasks EXCEPT ![s] = [task EXCEPT !.pc = "autoSelect"]]
              /\ UNCHANGED << activeCreation, isGenerating, showOutputSelector >>
         ELSE /\ IssueGeneration(s, task, selectedOutputType)
              /\ UNCHANGED isAutoSelecting
  /\ lastStep' = NoStep
  /\ UNCHANGED << isRefining, history, pendingFile, selectedOutputType,
                  processingFile, uploads, uuids, now, starts, extracted,
                  pin, pout, exported >>

\* handleConfirmGeneration returning from its catch block when the
\* auto-selection does not produce a valid answer
AutoSelectSettledAborting(s, response) ==
  /\ tasks[s].kind = "confirm"
  /\ tasks[s].pc = "autoSelect"
  /\ IF response.kind = "text" /\ NormalizeAnswer(response) = <<"field-simulator">>
     THEN /\ IssueGeneration(s, tasks[s], "field-simulator")
          /\ lastStep' = NoStep
     ELSE /\ tasks' = [tasks EXCEPT ![s] = NoTask]
          /\ lastStep' = Step("generate", TRUE, FALSE)
          /\ UNCHANGED << activeCreation, isGenerating, showOutputSelector, calls >>
  /\ isAutoSelecting' = FALSE
  /\ UNCHANGED << isRefining, history, pendingFile, selectedOutputType,
                  processingFile, uploads, uuids, now, starts, extracted,
                  pin, pout, exported >>

\* await autoSelectOutputType(pendingFile) settles and the handler goes on
AutoSelectSettled(s, response) ==
  /\ tasks[s].kind = "confirm"
  /\ tasks[s].pc = "autoSelect"
  /\ LET r == autoSelectOutputType(tasks[s].file.type, response)
         finalOutputType ==
           IF r.raised
           THEN (IF tasks[s].file.type = "image" THEN "damage-detective"
                 ELSE "flashcard-drill")
           ELSE r.value
     IN  IssueGeneration(s, tasks[s], finalOutputType)
  /\ isAutoSelecting' = FALSE
  /\ lastStep' = NoStep
  /\ UNCHANGED << isRefining, history, pendingFile, selectedOutputType,
                  processingFile, uploads, uuids, now, starts, extracted,
                  pin, pout, exported >>

\* handleConfirmGeneration: finally
ConfirmFinally ==
  /\ pendingFile' = NoFile
  /\ selectedOutputType' = NoOutput
  /\ isGenerating' = FALSE

\* await generateTraining(...) resolved: the rest of the try body, finally
GenerateResolved(s, response) ==
  /\ tasks[s].kind = "confirm"
  /\ tasks[s].pc = "generate"
  /\ response.kind # "error"
  /\ LET html == generateTraining(response).html
     IN  IF html # <<>>
         THEN \E t \in ClockReadings :
                LET newCreation == [id |-> uuids + 1,
                                    name |-> tasks[s].file.fileName,
                                    html |-> html,
                                    outputType |-> tasks[s].outType,
                                    sourceFileType |-> tasks[s].file.type,
                                    timestamp |-> t]
                IN  /\ activeCreation' = newCreation
                    /\ history' = <<newCreation>> \o history
                    /\ uuids' = uuids + 1
                    /\ now' = t
                    /\ tasks' = [tasks EXCEPT ![s] = NoTask]
                    /\ lastStep' = Step("generate", FALSE, TRUE)
         ELSE /\ tasks' = [tasks EXCEPT ![s] = NoTask]
              /\ lastStep' = Step("generate", FALSE, FALSE)
              /\ UNCHANGED << activeCreation, history, uuids, now >>
  /\ ConfirmFinally
  /\ UNCHANGED << isRefining, showOutputSelector, processingFile,
                  isAutoSelecting, uploads, starts, calls, extracted, pin, pout, exported >>

\* await generateTraining(...) rejected: catch, finally
GenerateRejected(s) ==
  /\ tasks[s].kind = "confirm"
  /\ tasks[s].pc = "generate"
  /\ generateTraining(CallError).raised
  /\ tasks' = [tasks EXCEPT ![s] = NoTask]
  /\ lastStep' = Step("generate", TRUE, FALSE)
  /\ ConfirmFinally
  /\ UNCHANGED << activeCreation, history, isRefining, showOutputSelector,
                  processingFile, isAutoSelecting, uploads, uuids, now, starts,
                  calls, extracted, pin, pout, exported >>

\* ------------------------------------------------------------ refinement
\* handleRefine up to its first await: fileToBase64 when a reference image
\* is attached, otherwise the request that refineApp sends
handleRefine(withImage) ==
  /\ RefineEnabled
  /\ starts < MaxStarts
  /\ FreeSlots # {}
  /\ isRefining' = TRUE
  /\ starts' = starts + 1
  /\ tasks' = [tasks EXCEPT ![FreeSlot] =
                 [NoTask EXCEPT !.kind = "refine",
                                !.pc = IF withImage THEN "readImage" ELSE "refineApp",
                                !.creation = activeCreation]]
  /\ lastStep' = NoStep
  /\ UNCHANGED << activeCreation, isGenerating, history, pendingFile,
                  selectedOutputType, showOutputSelector, processingFile,
                  isAutoSelecting, uploads, uuids, now, calls, extracted,
                  pin, pout, exported >>

\* fileToBase64 resolved; refineApp sends its request
ReferenceImageRead(s) ==
  /\ tasks[s].kind = "refine"
  /\ tasks[s].pc = "readImage"
  /\ tasks' = [tasks EXCEPT ![s].pc = "refineApp"]
  /\ lastStep' = NoStep
  /\ UNCHANGED << activeCreation, isGenerating, isRefining, history, pendingFile,
                  selectedOutputType, showOutputSelector, processingFile,
                  isAutoSelecting, uploads, uuids, now, starts, calls,
                  extracted, pin, pout, exported >>

\* a catch block of handleRefine that also closes the preview
RefineCatchClosingPreview(s) ==
  /\ isRefining' = FALSE
  /\ activeCreation' = NoCreation
  /\ tasks' = [tasks EXCEPT ![s] = NoTask]
  /\ lastStep' = Step("refine", TRUE, FALSE)
  /\ UNCHANGED << isGenerating, history, pendingFile,
                  selectedOutputType, showOutputSelector, processingFile,
                  isAutoSelecting, uploads, uuids, now, starts, calls,
                  extracted, pin, pout, exported >>

\* handleRefine: catch, finally
RefineCatch(s) ==
  /\ isRefining' = FALSE
  /\ tasks' = [tasks EXCEPT ![s] = NoTask]
  /\ lastStep' = Step("refine", TRUE, FALSE)
  /\ UNCHANGED << activeCreation, isGenerating, history, pendingFile,
                  selectedOutputType, showOutputSelector, processingFile,
                  isAutoSelecting, uploads, uuids, now, starts, calls,
                  extracted, pin, pout, exported >>

\* fileToBase64 rejected
ReferenceImageFailed(s) ==
  /\ tasks[s].kind = "refine"
  /\ tasks[s].pc = "readImage"
  /\ RefineCatch(s)

\* await refineApp(...) rejected
RefineRejected(s) ==
  /\ tasks[s].kind = "refine"
  /\ tasks[s].pc = "refineApp"
  /\ refineApp(tasks[s].creation.html, CallError).raised
  /\ RefineCatch(s)

\* handleRefine putting the refined creation in front of the history
RefineResolvedPrepending(s, response) ==
  /\ tasks[s].kind = "refine"
  /\ tasks[s].pc = "refineApp"
  /\ response.kind # "error"
  /\ LET newHtml == refineApp(tasks[s].creation.html, response).html
     IN  IF newHtml # <<>>
         THEN \E t \in ClockReadings :
                LET updatedCreation == [tasks[s].creation EXCEPT !.html = newHtml,
                                                                 !.timestamp = t]
                IN  /\ activeCreation' = updatedCreation
                    /\ history' = <<updatedCreation>> \o history
                    /\ now' = t
                    /\ tasks' = [tasks EXCEPT ![s] = NoTask]
                    /\ lastStep' = Step("refine", FALSE, TRUE)
         ELSE /\ tasks' = [tasks EXCEPT ![s] = NoTask]
              /\ lastStep' = Step("refine", FALSE, FALSE)
              /\ UNCHANGED << activeCreation, history, now >>
  /\ isRefining' = FALSE
  /\ UNCHANGED << isGenerating, pendingFile, selectedOutputType,
                  showOutputSelector, processingFile, isAutoSelecting, uploads,
                  uuids, starts, calls, extracted, pin, pout, exported >>

\* await refineApp(...) resolved: the rest of the try body, finally
RefineResolved(s, response) ==
  /\ tasks[s].kind = "refine"
  /\ tasks[s].pc = "refineApp"
  /\ response.kind # "error"
  /\ LET newHtml == refineApp(tasks[s].creation.html, response).html
     IN  IF newHtml # <<>>
         THEN \E t \in ClockReadings :
                LET updatedCreation == [tasks[s].creation EXCEPT !.html = newHtml,
                                                                 !.timestamp = t]
                    newHistory == [i \in 1..Len(history) |->
                                     IF history[i].id = updatedCreation.id
                                     THEN updatedCreation ELSE history[i]]
                IN  /\ activeCreation' = updatedCreation
                    /\ history' = newHistory
                    /\ now' = t
                    /\ tasks' = [tasks EXCEPT ![s] = NoTask]
                    /\ lastStep' = Step("refine", FALSE, TRUE)
         ELSE /\ tasks' = [tasks EXCEPT ![s] = NoTask]
              /\ lastStep' = Step("refine", FALSE, FALSE)
              /\ UNCHANGED << activeCreation, history, now >>
  /\ isRefining' = FALSE
  /\ UNCHANGED << isGenerating, pendingFile, selectedOutputType,
                  showOutputSelector, processingFile, isAutoSelecting, uploads,
                  uuids, starts, calls, extracted, pin, pout, exported >>

\* ------------------------------------------------- preview and history
\* LivePreview onReset: Close Preview and New
handleReset ==
  /\ PreviewEnabled
  /\ activeCreation' = NoCreation
  /\ isGenerating' = FALSE
  /\ isRefining' = FALSE
  /\ lastStep' = NoStep
  /\ UNCHANGED << tasks, history, pendingFile, selectedOutputType, showOutputSelector,
                  processingFile, isAutoSelecting, uploads, uuids, now, starts,
                  calls, extracted, pin, pout, exported >>

\* CreationHistory onSelect; the list is in the container that is
\* pointer-events-none while isFocused
handleSelectCreation(i) ==
  /\ ~isFocused /\ ~ModalOpen
  /\ i \in 1..Len(history)
  /\ activeCreation' = history[i]
  /\ lastStep' = NoStep
  /\ UNCHANGED << tasks, isGenerating, isRefining, history, pendingFile,
                  selectedOutputType, showOutputSelector, processingFile,
                  isAutoSelecting, uploads, uuids, now, starts, calls,
                  extracted, pin, pout, exported >>

\* JSON.stringify(creation) losing the timestamp
SerializeWithoutTimestamp(creation) ==
  [id |-> creation.id, name |-> creation.name, html |-> creation.html,
   outputType |-> creation.outputType, sourceFileType |-> creation.sourceFileType,
   timestamp |-> <<>>]

\* JSON.stringify(creation): the Date becomes its ISO string
Absent == <<>>
Serialize(creation) ==
  [id |-> creation.id, name |-> creation.name, html |-> creation.html,
   outputType |-> creation.outputType, sourceFileType |-> creation.sourceFileType,
   timestamp |-> <<creation.timestamp>>]

\* LivePreview.handleExport, rendered when !isLoading && creation
handleExport ==
  /\ PreviewEnabled
  /\ ~isGenerating
  /\ activeCreation # NoCreation
  /\ starts < MaxStarts
  /\ starts' = starts + 1
  /\ exported' = exported \cup {Serialize(activeCreation)}
  /\ lastStep' = NoStep
  /\ UNCHANGED << activeCreation, isGenerating, isRefining, history, pendingFile,
                  selectedOutputType, showOutputSelector, processingFile,
                  isAutoSelecting, tasks, uploads, uuids, now, calls,
                  extracted, pin, pout >>

\* JSON documents written by something other than handleExport
ForeignArtifacts ==
  { [id |-> 0, name |-> <<"b">>, html |-> <<"<r>">>, outputType |-> "none",
     sourceFileType |-> "none", timestamp |-> Absent],
    [id |-> 0, name |-> <<>>, html |-> <<"<r>">>, outputType |-> "none",
     sourceFileType |-> "none", timestamp |-> Absent] }

\* the updater putting every imported creation in front
addImportedUnchecked(prev, importedCreation) == <<importedCreation>> \o prev

\* the updater handleImportFile gives to setHistory
addImported(prev, importedCreation) ==
  LET exists == \E i \in 1..Len(prev) : prev[i].id = importedCreation.id
  IN  IF exists THEN prev ELSE <<importedCreation>> \o prev

\* handleImportFile, reader.onload
handleImportFile(parsed) ==
  /\ ~ModalOpen
  /\ starts < MaxStarts
  /\ starts' = starts + 1
  /\ IF parsed.html # <<>> /\ parsed.name # <<>>
     THEN \E t \in ClockReadings :
            LET stamp == IF parsed.timestamp # Absent THEN parsed.timestamp[1] ELSE t
                fresh == parsed.id = 0
                importedCreation ==
                  [id |-> IF fresh THEN uuids + 1 ELSE parsed.id,
                   name |-> parsed.name, html |-> parsed.html,
                   outputType |-> parsed.outputType,
                   sourceFileType |-> parsed.sourceFileType,
                   timestamp |-> stamp]
                newHistory == addImported(history, importedCreation)
            IN  /\ history' = newHistory
                /\ activeCreation' = importedCreation
                /\ uuids' = IF fresh THEN uuids + 1 ELSE uuids
                /\ now' = IF parsed.timestamp # Absent THEN now ELSE t
                /\ lastStep' = Step("import", FALSE, TRUE)
     ELSE /\ lastStep' = Step("import", TRUE, FALSE)
          /\ UNCHANGED << activeCreation, history, uuids, now >>
  /\ UNCHANGED << tasks, isGenerating, isRefining, pendingFile, selectedOutputType,
                  showOutputSelector, processingFile, isAutoSelecting, uploads,
                  calls, extracted, pin, pout, exported >>

\* ------------------------------------------------------------------ Next
Next ==
  \/ \E f \in UploadInputs : HandleFileRejected(f)
  \/ \E f \in UploadInputs : handleGenerate(f)
  \/ \E s \in Slots : ProcessResolved(s)
  \/ \E s \in Slots : ProcessRejected(s)
  \/ \E s \in Slots : VideoMetadataLoaded(s)
  \/ \E s \in Slots : VideoSeeked(s)
  \/ \E s \in Slots : VideoSeekError(s)
  \/ \E s \in Slots : VideoLoadTimeout(s)
  \/ \E t \in {"auto"} \cup {validTypes[i] : i \in 1..Len(validTypes)} : SelectOutput(t)
  \/ handleCancelSelection
  \/ handleConfirmGeneration
  \/ \E s \in Slots, r \in AutoSelectResponses : AutoSelectSettled(s, r)
  \/ \E s \in Slots, r \in GenerateResponses : GenerateResolved(s, r)
  \/ \E s \in Slots : GenerateRejected(s)
  \/ \E b \in BOOLEAN : handleRefine(b)
  \/ \E s \in Slots : ReferenceImageRead(s)
  \/ \E s \in Slots : ReferenceImageFailed(s)
  \/ \E s \in Slots, r \in RefineResponses : RefineResolved(s, r)
  \/ \E s \in Slots : RefineRejected(s)
  \/ handleReset
  \/ \E i \in 1..(MaxStarts * MaxTasks) : handleSelectCreation(i)
  \/ handleExport
  \/ \E d \in exported \cup ForeignArtifacts : handleImportFile(d)

Spec == Init /\ [][Next]_vars

\* ------------------------------------------------------ a later session
\* The history that the mount effect loads from local storage: two
\* creations of an earlier session, the newer one first.  The older one was
\* exported in that session and refined afterwards, so the artifact file
\* on disk holds its earlier html.
SavedHistory ==
  << [id |-> 2, name |-> <<"a", ".mp4">>, html |-> <<"<p>">>,
      outputType |-> "flashcard-drill", sourceFileType |-> "video", timestamp |-> 0],
     [id |-> 1, name |-> <<"a", ".png">>, html |-> <<"<p>">>,
      outputType |-> "damage-detective", sourceFileType |-> "image", timestamp |-> 0] >>

InitRestored ==
  /\ activeCreation = NoCreation
  /\ isGenerating = FALSE
  /\ isRefining = FALSE
  /\ history = SavedHistory
  /\ pendingFile = NoFile
  /\ selectedOutputType = NoOutput
  /\ showOutputSelector = FALSE
  /\ processingFile = FALSE
  /\ isAutoSelecting = FALSE
  /\ tasks = [s \in Slots |-> NoTask]
  /\ uploads = 0
  /\ uuids = Len(SavedHistory)
  /\ now = 0
  /\ starts = 0
  /\ calls = {}
  /\ extracted = {}
  /\ lastStep = NoStep
  /\ exported = {Serialize([SavedHistory[2] EXCEPT !.html = <<"<o>">>])}
  /\ pin = <<>>
  /\ pout = <<>>

SpecRestored == InitRestored /\ [][Next]_vars

\* The reader and the video element report something, and the auto-selection
\* request settles: each pending extraction event and each pending
\* auto-selection answer is eventually delivered to the handler awaiting it.
ExtractionEvent(s) ==
  \/ ProcessResolved(s)
  \/ ProcessRejected(s)
  \/ VideoMetadataLoaded(s)
  \/ VideoSeeked(s)
  \/ VideoSeekError(s)

AutoSelectCallSettled(s) == \E r \in AutoSelectResponses : AutoSelectSettled(s, r)

FairSpec ==
  /\ Spec
  /\ \A s \in Slots : WF_vars(ExtractionEvent(s))
  /\ \A s \in Slots : WF_vars(AutoSelectCallSettled(s))

\* ==================================================== the pure helpers
\* The helpers are applied to arguments drawn from bounded sets; the App
\* stays as first rendered.
NoResult == [done |-> FALSE, raised |-> FALSE, value |-> "none"]

\* -------------------------------------------------- autoSelectOutputType
\* Lexemes of a model answer.  No two of them concatenate to an output-type
\* identifier, so a string is an identifier exactly when it is one lexeme.
AnswerLexemes ==
  {" ", "\n", "\"", "'", "FIELD-SIMULATOR", "flashcard-drill", "auto", "x"}

AutoSelectInputs ==
  { [fileType |-> t, response |-> r] :
      t \in SupportedFileTypes,
      r \in {TextOf(a) : a \in SeqsUpTo(AnswerLexemes, MaxRespLen)}
              \cup {NoText, CallError} }

InitAutoSelect ==
  /\ AppInit
  /\ pin \in AutoSelectInputs
  /\ pout = NoResult

\* const t = await autoSelectOutputType(parsedFile)
CallAutoSelect ==
  /\ ~pout.done
  /\ LET r == autoSelectOutputType(pin.fileType, pin.response)
     IN  pout' = [done |-> TRUE, raised |-> r.raised, value |-> r.value]
  /\ UNCHANGED << appVars, pin >>

NextAutoSelect == CallAutoSelect

SpecAutoSelect == InitAutoSelect /\ [][NextAutoSelect]_vars

\* -------------------------------------------------------- detectFileType
\* Lexemes of File.type, and of File.name: a name is a stem, which may hold
\* dots of its own, followed or not by an extension.
MimeLexemes ==
  {"image/", "IMAGE/", "application/", "text/", "video/", "pdf", "csv",
   "markdown", "spreadsheet", "excel", "octet-stream"}
StemLexemes == {"a", ".csv"}
ExtensionLexemes ==
  {".jpg", ".jpeg", ".png", ".PNG", ".gif", ".webp", ".svg", ".bmp", ".pdf",
   ".csv", ".CSV", ".xlsx", ".xls", ".txt", ".md", ".markdown",
   ".mp4", ".webm", ".mov", ".avi", ".mkv", ".exe"}

FileNames ==
  { stem \o ext : stem \in SeqsUpTo(StemLexemes, MaxNameLen - 1),
                  ext \in {<<>>} \cup {<<e>> : e \in ExtensionLexemes} }

ClassifyInputs ==
  { [fileType |-> m, fileName |-> n] :
      m \in SeqsUpTo(MimeLexemes, MaxMimeLen), n \in FileNames }

InitClassify ==
  /\ AppInit
  /\ pin \in ClassifyInputs
  /\ pout = NoResult

\* const type = this.detectFileType(file)
CallDetectFileType ==
  /\ ~pout.done
  /\ LET type == detectFileType(pin.fileType, pin.fileName)
     IN  pout' = [done |-> TRUE, raised |-> type = Unsupported, value |-> type]
  /\ UNCHANGED << appVars, pin >>

NextClassify == CallDetectFileType

SpecClassify == InitClassify /\ [][NextClassify]_vars

\* ============================================================ properties
InFlight == {s \in Slots : tasks[s].kind # "none"}

\* C1: with the user limited to what the interface leaves enabled, at most
\* one of extraction, auto-selection, generation and refinement is in
\* flight at any time.
C1_AtMostOneInFlight == Cardinality(InFlight) <= 1

\* the steps of a handleRefine invocation on the path that ends in the
\* catch block because refineApp rejected
RefineStarts(s) == tasks[s].kind = "none" /\ tasks'[s].kind = "refine"
RefineAdvances(s) ==
  tasks[s].kind = "refine" /\ tasks'[s].kind = "refine" /\ tasks'[s] # tasks[s]
RefineAppFails(s) ==
  /\ tasks[s].kind = "refine" /\ tasks[s].pc = "refineApp"
  /\ tasks'[s] = NoTask
  /\ lastStep' = Step("refine", TRUE, FALSE)

\* C2: when the model call of refineApp fails, no step of that handleRefine
\* invocation (its start, the reference-image read, its catch and finally)
\* changes the active creation or any entry of the history.
C2_FailedRefineKeepsState ==
  [][\A s \in Slots :
       (RefineStarts(s) \/ RefineAdvances(s) \/ RefineAppFails(s))
         => (activeCreation' = activeCreation /\ history' = history)]_vars

\* a refinement has just failed and the creation it was asked to change is
\* still the active one and still the history's entry
C2_Witness ==
  /\ lastStep = Step("refine", TRUE, FALSE)
  /\ activeCreation # NoCreation
  /\ activeCreation.html = <<"<p>">>
  /\ history = <<activeCreation>>

\* C3: when the model call of generateTraining fails, handleConfirmGeneration
\* has discarded nothing: the step that reports the failure belongs to an
\* invocation that replaced no active creation, and it changes neither the
\* active creation nor the history.
C3_FailedGenerationKeepsState ==
  [][\A s \in Slots :
       (/\ tasks[s].kind = "confirm" /\ tasks[s].pc = "generate"
        /\ tasks'[s] = NoTask
        /\ lastStep' = Step("generate", TRUE, FALSE))
         => (/\ tasks[s].replaced = NoCreation
             /\ activeCreation' = activeCreation
             /\ history' = history)]_vars

\* the nine concrete members of OutputType
ConcreteOutputTypes ==
  {"field-simulator", "damage-detective", "commission-tycoon",
   "objection-arena", "inspection-walkthrough", "flashcard-drill",
   "interactive-timeline", "scenario-builder", "pitch-perfector"}

\* C4: whatever the parsed file's type and whatever the model call does,
\* autoSelectOutputType does not raise and returns one of the nine concrete
\* output types.
C4_AutoSelectReturnsConcreteType ==
  pout.done => (~pout.raised /\ pout.value \in ConcreteOutputTypes)

\* the model answered 'auto' and the selector returned a concrete type
C4_Witness ==
  /\ pout.done
  /\ pin.response = TextOf(<<"auto">>)
  /\ pin.fileType = "pdf"
  /\ pout.value = "flashcard-drill"

\* the normalisation the specification describes: trim, lowercase, strip
\* the quote characters
RECURSIVE ReferenceStripQuotes(_)
ReferenceStripQuotes(s) ==
  IF s = <<>> THEN <<>>
  ELSE IF Head(s) = "'" \/ Head(s) = "\"" THEN ReferenceStripQuotes(Tail(s))
  ELSE <<Head(s)>> \o ReferenceStripQuotes(Tail(s))

ReferenceTrim(s) ==
  LET solid == {i \in 1..Len(s) : s[i] \notin {" ", "\n", "\t"}}
  IN  IF solid = {} THEN <<>>
      ELSE SubSeq(s, CHOOSE i \in solid : \A j \in solid : i <= j,
                     CHOOSE i \in solid : \A j \in solid : i >= j)

ReferenceNormalize(s) == ReferenceStripQuotes(ToLowerCase(ReferenceTrim(s)))

\* the static fallback of the specification
FallbackTable ==
  [t \in SupportedFileTypes |->
     IF t = "image" THEN "damage-detective"
     ELSE IF t = "video" THEN "inspection-walkthrough"
     ELSE IF t = "csv" \/ t = "excel" THEN "commission-tycoon"
     ELSE "flashcard-drill"]

\* C5: autoSelectOutputType returns the normalised answer exactly when it
\* is one of the nine identifiers, and otherwise, or when the call fails,
\* the fallback of the file's type.
C5_AutoSelectNormalizesOrFallsBack ==
  pout.done =>
    LET answer == IF pin.response.kind = "text"
                  THEN ReferenceNormalize(pin.response.text) ELSE <<>>
        accepted == Len(answer) = 1 /\ answer[1] \in ConcreteOutputTypes
    IN  pout.value = IF accepted THEN answer[1] ELSE FallbackTable[pin.fileType]

\* a quoted, padded, upper-case identifier was accepted for an image
C5_Witness ==
  /\ pout.done
  /\ pin.response = TextOf(<<" ", "\"", "FIELD-SIMULATOR">>)
  /\ pin.fileType = "image"
  /\ pout.value = "field-simulator"

AutoSelecting(f) ==
  \E s \in Slots : /\ tasks[s].kind = "confirm" /\ tasks[s].pc = "autoSelect"
                   /\ tasks[s].file.fid = f

\* C6: once 'auto' has been confirmed for an extracted file, a generation
\* request for that file is eventually issued, whatever the auto-selection
\* call does.
C6_AutoConfirmLeadsToGeneration ==
  \A f \in 1..MaxStarts :
    AutoSelecting(f) ~> ([fid |-> f, kind |-> "generate"] \in calls)

\* a generation is running with the image fallback chosen after an
\* auto-selection request for the same file
C6_Witness ==
  \E s \in Slots :
    /\ tasks[s].kind = "confirm" /\ tasks[s].pc = "generate"
    /\ tasks[s].outType = "damage-detective"
    /\ [fid |-> tasks[s].file.fid, kind |-> "autoSelect"] \in calls
    /\ [fid |-> tasks[s].file.fid, kind |-> "generate"] \in calls

\* uploads whose classification or extraction has failed
FailedFiles ==
  {f \in 1..uploads :
     /\ f \notin extracted
     /\ ~\E s \in Slots : tasks[s].kind = "extract" /\ tasks[s].file.fid = f}

\* C7: every model request is for a file whose classification and
\* extraction succeeded, and a file whose classification or extraction
\* failed is never pending and never the subject of a model request.
C7_NoModelCallBeforeExtraction ==
  /\ \A c \in calls : c.fid \in extracted
  /\ \A f \in FailedFiles : pendingFile.fid # f /\ \A c \in calls : c.fid # f

\* one upload failed in extraction, and a later one was extracted and sent
\* to the model
C7_Witness ==
  /\ FailedFiles = {1}
  /\ [fid |-> 2, kind |-> "generate"] \in calls

\* C8: a generation or refinement that completes either installs a creation
\* as the active one or alerts the user, and not both.
C8_CompletionInstallsOrAlerts ==
  lastStep.op \in {"generate", "refine"} => (lastStep.alert # lastStep.installed)

Extracting(f) ==
  \E s \in Slots : tasks[s].kind = "extract" /\ tasks[s].file.fid = f

\* C9: an extraction that has started eventually resolves, to a parsed file
\* or to a failure, whatever the reader or the video element reports.
C9_ExtractionResolves ==
  \A f \in 1..MaxStarts : Extracting(f) ~> ~Extracting(f)

\* the classifier the specification describes
MimeRuleHolds(k, mime) ==
  CASE k = 1 -> mime # <<>> /\ mime[1] = "image/"
    [] k = 2 -> mime = <<"application/", "pdf">>
    [] k = 3 -> mime = <<"text/", "csv">>
    [] k = 4 -> \E i \in DOMAIN mime : mime[i] \in {"spreadsheet", "excel"}
    [] k = 5 -> mime # <<>> /\ mime[1] = "video/"
    [] k = 6 -> mime = <<"text/", "markdown">>
    [] k = 7 -> mime # <<>> /\ mime[1] = "text/"

MimeRuleCategory == <<"image", "pdf", "csv", "excel", "video", "markdown", "text">>

ExtensionsOf ==
  [image    |-> {".jpg", ".jpeg", ".png", ".gif", ".webp", ".svg", ".bmp"},
   pdf      |-> {".pdf"},
   csv      |-> {".csv"},
   excel    |-> {".xlsx", ".xls"},
   text     |-> {".txt"},
   markdown |-> {".md", ".markdown"},
   video    |-> {".mp4", ".webm", ".mov", ".avi", ".mkv"}]

ReferenceClassify(fileType, fileName) ==
  LET mime == ToLowerCase(fileType)
      name == ToLowerCase(fileName)
      hits == {k \in 1..7 : MimeRuleHolds(k, mime)}
      cats == {c \in DOMAIN ExtensionsOf :
                 name # <<>> /\ name[Len(name)] \in ExtensionsOf[c]}
  IN  IF hits # {} THEN MimeRuleCategory[CHOOSE k \in hits : \A m \in hits : k <= m]
      ELSE IF cats # {} THEN CHOOSE c \in cats : TRUE
      ELSE "unsupported"

\* C10: detectFileType agrees with the reference classifier on every pair
\* of declared media type and file name, and throws exactly when the
\* reference finds the file unsupported.
C10_DetectFileTypeMatchesReference ==
  pout.done =>
    /\ pout.value = ReferenceClassify(pin.fileType, pin.fileName)
    /\ pout.raised = (ReferenceClassify(pin.fileType, pin.fileName) = "unsupported")

\* an upper-case image media type won over a .csv file name
C10_Witness ==
  /\ pout.done
  /\ pin.fileType = <<"IMAGE/", "pdf">>
  /\ pin.fileName = <<"a", ".csv">>
  /\ pout.value = "image"

\* ------------------------------------------- the upload gate (InputArea)
\* A file is handed to InputArea.handleFile.  A file that the gate accepts
\* goes through onGenerate to FileProcessor.process, whose first statement
\* classifies it; a file that the gate rejects is answered with the alert
\* that lists the supported formats.
InitGate ==
  /\ AppInit
  /\ pin \in ClassifyInputs
  /\ pout = [done |-> FALSE, alerted |-> FALSE, value |-> "none"]

\* handleFile, if branch: onGenerate("", file) -> process -> detectFileType
GateAccepts ==
  /\ ~pout.done
  /\ isFileSupported(pin.fileType, pin.fileName)
  /\ pout' = [done |-> TRUE, alerted |-> FALSE,
              value |-> detectFileType(pin.fileType, pin.fileName)]
  /\ UNCHANGED << appVars, pin >>

\* handleFile, else branch: alert('Unsupported file type. ...')
GateRejects ==
  /\ ~pout.done
  /\ ~isFileSupported(pin.fileType, pin.fileName)
  /\ pout' = [done |-> TRUE, alerted |-> TRUE, value |-> "none"]
  /\ UNCHANGED << appVars, pin >>

NextGate == GateAccepts \/ GateRejects

SpecGate == InitGate /\ [][NextGate]_vars

\* C11: the upload gate rejects a file, with the supported-formats alert,
\* exactly when detectFileType throws for it: an accepted file is always
\* classified, and a rejected file is one the classifier would refuse.
C11_GateAgreesWithClassifier ==
  pout.done =>
    /\ pout.alerted = (detectFileType(pin.fileType, pin.fileName) = Unsupported)
    /\ ~pout.alerted => pout.value \in SupportedFileTypes

\* a file with a generic media type was accepted by its upper-case
\* extension and classified from it
C11_Witness ==
  /\ pout.done /\ ~pout.alerted
  /\ pin.fileType = <<"application/", "octet-stream">>
  /\ pin.fileName = <<"a", ".CSV">>
  /\ pout.value = "csv"

\* a file that neither test recognises was rejected with the alert
C11_WitnessRejected ==
  /\ pout.done /\ pout.alerted
  /\ pin.fileName = <<"a", ".exe">>

\* ---------------------------------------------------------- cleanResponse
RECURSIVE ConcatsUpTo(_, _)
ConcatsUpTo(S, n) ==
  IF n = 0 THEN {<<>>}
  ELSE LET shorter == ConcatsUpTo(S, n - 1)
       IN  shorter \cup {s \o c : s \in shorter, c \in S}

\* Pieces of a model response: a fence, the language tag in either case,
\* white space, markup, a lone backtick
ResponseChunks ==
  { Fence, <<"h", "t", "m", "l">>, <<"H", "T", "M", "L">>, <<" ">>, <<"\n">>,
    <<"<p>">>, <<"BACKTICK">> }

CleanInputs == ConcatsUpTo(ResponseChunks, MaxRespLen)

InitClean ==
  /\ AppInit
  /\ pin \in CleanInputs
  /\ pout = [stage |-> 0, value |-> <<>>, again |-> <<>>]

\* generateTraining: return cleanResponse(text)
CallCleanResponse ==
  /\ pout.stage = 0
  /\ pout' = [pout EXCEPT !.stage = 1, !.value = cleanResponse(pin)]
  /\ UNCHANGED << appVars, pin >>

\* refineApp with a response that carries no text: text is currentHtml, the
\* html cleaned before, and cleanResponse is applied to it again
CallCleanResponseAgain ==
  /\ pout.stage = 1
  /\ pout' = [pout EXCEPT !.stage = 2, !.again = cleanResponse(pout.value)]
  /\ UNCHANGED << appVars, pin >>

NextClean == CallCleanResponse \/ CallCleanResponseAgain

SpecClean == InitClean /\ [][NextClean]_vars

BeginsWithFence(x) ==
  Len(x) >= 3 /\ \A i \in 1..3 : x[i] = "BACKTICK"
EndsWithFence(x) ==
  Len(x) >= 3 /\ \A i \in (Len(x) - 2)..Len(x) : x[i] = "BACKTICK"

\* C12: cleaning a cleaned string changes nothing, and a string with no
\* leading and no trailing fence is returned as it is.
C12_CleanIsIdempotentAndKeepsUnfenced ==
  pout.stage = 2 =>
    /\ pout.again = pout.value
    /\ (~BeginsWithFence(pin) /\ ~EndsWithFence(pin)) => pout.value = pin

\* ------------------------------------------- processCsv, extractMetadata
MaxCsvRows == 2

\* A cell of a DataRow: string | number
Str(s) == [kind |-> "string", str |-> s, num |-> 0]
Num(n) == [kind |-> "number", str |-> <<>>, num |-> n]

\* A DataRow is a JavaScript object: its entries in insertion order, and an
\* assignment to a key it already has replaces that entry's value.  (The
\* header names of the model are not integer-like, so no key is reordered.)
ObjectSet(row, key, value) ==
  IF \E i \in 1..Len(row) : row[i].key = key
  THEN [i \in 1..Len(row) |->
          IF row[i].key = key THEN [key |-> key, value |-> value] ELSE row[i]]
  ELSE Append(row, [key |-> key, value |-> value])

\* text.split('\n')
SplitLines(text) ==
  LET breaks == {i \in 1..Len(text) : text[i] = "\n"}
      \* the position of the k-th line break; 0 before the text, Len + 1 after it
      Break(k) == IF k = 0 THEN 0
                  ELSE IF k > Cardinality(breaks) THEN Len(text) + 1
                  ELSE CHOOSE p \in breaks : Cardinality({q \in breaks : q < p}) = k - 1
  IN  [k \in 1..(Cardinality(breaks) + 1) |-> SubSeq(text, Break(k - 1) + 1, Break(k) - 1)]

\* parseCsvLine: a quote toggles inQuotes and is dropped, a comma outside
\* quotes ends the field, every field is trimmed
parseCsvLine(line) ==
  LET RECURSIVE Chars(_, _, _, _)
      Chars(rest, result, current, inQuotes) ==
        IF rest = <<>> THEN Append(result, Trim(current))
        ELSE LET char == Head(rest)
             IN  IF char = "\""
                 THEN Chars(Tail(rest), result, current, ~inQuotes)
                 ELSE IF char = "," /\ ~inQuotes
                 THEN Chars(Tail(rest), Append(result, Trim(current)), <<>>, inQuotes)
                 ELSE Chars(Tail(rest), result, Append(current, char), inQuotes)
  IN  Chars(line, <<>>, <<>>, FALSE)

\* parseFloat on strings without sign, decimal point or exponent: leading
\* white space is skipped and the longest prefix of digits is the number;
\* without a digit the result is NaN
parseFloat(s) ==
  LET Digits == <<"0", "1", "2", "3", "4", "5", "6", "7", "8", "9">>
      IsDigit(c) == \E d \in 1..Len(Digits) : Digits[d] = c
      DigitValue(c) == (CHOOSE d \in 1..Len(Digits) : Digits[d] = c) - 1
      RECURSIVE Prefix(_)
      Prefix(rest) ==
        IF rest # <<>> /\ IsDigit(Head(rest))
        THEN <<Head(rest)>> \o Prefix(Tail(rest)) ELSE <<>>
      RECURSIVE Value(_, _)
      Value(ds, acc) ==
        IF ds = <<>> THEN acc ELSE Value(Tail(ds), 10 * acc + DigitValue(Head(ds)))
      ds == Prefix(TrimStart(s))
  IN  IF ds = <<>> THEN [nan |-> TRUE, num |-> 0]
      ELSE [nan |-> FALSE, num |-> Value(ds, 0)]

\* processCsv applied to the text of the file; the text it returns is
\* formatDataAsText's description of the table, which is never empty
processCsv(text) ==
  LET lines == SelectSeq(SplitLines(text), LAMBDA line : Trim(line) # <<>>)
      RECURSIVE RowFrom(_, _, _, _)
      RowFrom(headers, values, idx, row) ==
        IF idx > Len(headers) THEN row
        ELSE LET value == IF idx <= Len(values) /\ values[idx] # <<>>
                          THEN values[idx] ELSE <<>>
                 numValue == parseFloat(value)
                 cell == IF numValue.nan THEN Str(value) ELSE Num(numValue.num)
             IN  RowFrom(headers, values, idx + 1, ObjectSet(row, headers[idx], cell))
  IN  IF Len(lines) = 0 THEN [text |-> <<>>, data |-> <<>>]
      ELSE LET headers == parseCsvLine(lines[1])
           IN  [text |-> <<"Data with rows and columns">>,
                data |-> [i \in 1..(Len(lines) - 1) |->
                            RowFrom(headers, parseCsvLine(lines[i + 1]), 1, <<>>)]]

\* extractMetadata for a content that has data: an optional number is
\* undefined or defined with its value
extractMetadata(content) ==
  [rowCount |-> [defined |-> TRUE, n |-> Len(content.data)],
   columnCount |-> IF Len(content.data) >= 1
                   THEN [defined |-> TRUE, n |-> Len(content.data[1])]
                   ELSE [defined |-> FALSE, n |-> 0]]

\* A natural number as a string, as a template literal renders it
RECURSIVE NumberToString(_)
NumberToString(n) ==
  LET Digits == <<"0", "1", "2", "3", "4", "5", "6", "7", "8", "9">>
  IN  IF n < 10 THEN <<Digits[n + 1]>>
      ELSE NumberToString(n \div 10) \o <<Digits[(n % 10) + 1]>>

\* The text of a CSV file holding a header list and rows: one line per
\* row, fields joined by commas, a field that contains a comma in quotes,
\* a number in decimal digits
CsvText(headers, rows) ==
  LET Decimal(n) == NumberToString(n)
      Quoted(s) == IF \E i \in 1..Len(s) : s[i] = "," THEN <<"\"">> \o s \o <<"\"">> ELSE s
      Field(v) == IF v.kind = "number" THEN Decimal(v.num) ELSE Quoted(v.str)
      RECURSIVE Join(_, _)
      Join(parts, sep) ==
        IF parts = <<>> THEN <<>>
        ELSE IF Len(parts) = 1 THEN parts[1]
        ELSE parts[1] \o sep \o Join(Tail(parts), sep)
      HeaderLine == Join([i \in 1..Len(headers) |-> Quoted(headers[i])], <<",">>)
      RowLine(r) == Join([i \in 1..Len(r) |-> Field(r[i])], <<",">>)
  IN  Join(<<HeaderLine>> \o [i \in 1..Len(rows) |-> RowLine(rows[i])], <<"\n">>)

\* CSV files: a header list (one with a comma in a name, one with a
\* repeated name), and up to MaxCsvRows rows of one value per header
CsvInputs ==
  LET A == <<"a">>
      B == <<"b">>
      AB == <<"a", ",", "b">>
      HeaderLists == {<<A>>, <<A, B>>, <<AB, B>>, <<A, A>>}
      Values == {Str(<<>>), Str(A), Str(AB), Str(<<"1", ",", "2">>), Num(0), Num(12)}
  IN  UNION {{[headers |-> h, rows |-> r, text |-> CsvText(h, r)] :
                r \in SeqsUpTo([1..Len(h) -> Values], MaxCsvRows)} : h \in HeaderLists}

InitCsv ==
  /\ AppInit
  /\ pin \in CsvInputs
  /\ pout = [stage |-> 0,
             content |-> [text |-> <<>>, data |-> <<>>],
             metadata |-> [rowCount |-> [defined |-> FALSE, n |-> 0],
                           columnCount |-> [defined |-> FALSE, n |-> 0]]]

\* process: extractContent for a file classified csv
CallProcessCsv ==
  /\ pout.stage = 0
  /\ pout' = [pout EXCEPT !.stage = 1, !.content = processCsv(pin.text)]
  /\ UNCHANGED <<appVars, pin>>

\* process: extractMetadata on the extracted content
CallExtractMetadata ==
  /\ pout.stage = 1
  /\ pout' = [pout EXCEPT !.stage = 2, !.metadata = extractMetadata(pout.content)]
  /\ UNCHANGED <<appVars, pin>>

SpecCsv == InitCsv /\ [][CallProcessCsv \/ CallExtractMetadata]_vars

\* The DataRow objects of the rows of a file: entry i keyed by header i
RowObjects(headers, rows) ==
  [r \in 1..Len(rows) |-> [i \in 1..Len(headers) |-> [key |-> headers[i], value |-> rows[r][i]]]]

DistinctHeaders(headers) ==
  \A i, j \in 1..Len(headers) : headers[i] = headers[j] => i = j

\* C13: parsing the CSV text of a header list and rows gives back the rows:
\* for distinct headers, the data processCsv returns are the rows written
C13_CsvRoundTrip ==
  (pout.stage >= 1 /\ DistinctHeaders(pin.headers))
    => pout.content.data = RowObjects(pin.headers, pin.rows)

\* C14: columnCount is the number of headers of the file and rowCount the
\* number of data rows, also without data rows and with repeated headers
C14_MetadataCountsHeadersAndRows ==
  pout.stage = 2
    => /\ pout.metadata.columnCount = [defined |-> TRUE, n |-> Len(pin.headers)]
       /\ pout.metadata.rowCount = [defined |-> TRUE, n |-> Len(pout.content.data)]

\* ------------------------------------------------------------ processPdf
MaxPdfPages == 22

maxPagesUncapped(numPages) == numPages

\* maxPages = Math.min(pdf.numPages, 20)
maxPages(numPages) == IF numPages < 20 THEN numPages ELSE 20

\* A document of pdf.numPages pages; the text found on its pages
InitPdf ==
  /\ AppInit
  /\ pin \in [numPages : 1..MaxPdfPages, pageText : {<<>>, <<"words">>}]
  /\ pout = [stage |-> "pages", pages |-> <<>>, text |-> <<>>]

\* One turn of the page loop: i is one more than the pages pushed so far
PdfPageRendered ==
  /\ pout.stage = "pages"
  /\ Len(pout.pages) + 1 <= maxPages(pin.numPages)
  /\ pout' = [pout EXCEPT !.pages =
                Append(@, [pageNumber |-> Len(pout.pages) + 1,
                           text |-> pin.pageText,
                           imageBase64 |-> <<"png">>])]
  /\ UNCHANGED <<appVars, pin>>

\* After the loop: fullText is one piece per page, its marker
\* [Page pageNumber] followed by the page's text, in the order of pages
PdfTextCombined ==
  /\ pout.stage = "pages"
  /\ ~(Len(pout.pages) + 1 <= maxPages(pin.numPages))
  /\ pout' = [pout EXCEPT !.stage = "done",
                          !.text = [i \in 1..Len(pout.pages) |->
                                      [marker |-> pout.pages[i].pageNumber,
                                       body |-> pout.pages[i].text]]]
  /\ UNCHANGED <<appVars, pin>>

SpecPdf == InitPdf /\ [][PdfPageRendered \/ PdfTextCombined]_vars

MaxDuration == 151

\* video.duration once the metadata has loaded: whole seconds, or Infinity
\* (a stream or a recording without a duration)
Seconds(n) == [kind |-> "finite", secs |-> n]

\* frameCount = Math.min(10, Math.max(3, Math.ceil(duration / 15)))
frameCount(duration) ==
  IF duration.kind = "inf" THEN 10
  ELSE LET ceil == (duration.secs + 14) \div 15
           atLeast == IF ceil > MinFrames THEN ceil ELSE MinFrames
       IN  IF atLeast < 10 THEN atLeast ELSE 10

\* timestamp = (duration / (frameCount + 1)) * (i + 1), kept as a fraction
timestamp(duration, count, i) ==
  IF duration.kind = "finite"
  THEN [finite |-> TRUE, num |-> duration.secs * (i + 1), den |-> count + 1]
  ELSE [finite |-> FALSE, num |-> 0, den |-> 1]

InitVideo ==
  /\ AppInit
  /\ pin \in {Seconds(n) : n \in 0..MaxDuration}
               \cup {[kind |-> "inf", secs |-> 0]}
  /\ pout = [stage |-> "frames", frames |-> <<>>]

\* the loop test i < frameCount
MoreFrames == Len(pout.frames) < frameCount(pin)

\* One turn of the frame loop with a finite timestamp: seek, seeked, capture
VideoFrameCaptured ==
  /\ pout.stage = "frames"
  /\ MoreFrames
  /\ LET t == timestamp(pin, frameCount(pin), Len(pout.frames))
     IN  /\ t.finite
         /\ pout' = [pout EXCEPT !.frames = Append(@, [timestamp |-> t, imageBase64 |-> <<"jpeg">>])]
  /\ UNCHANGED <<appVars, pin>>

\* video.currentTime = timestamp throws a TypeError for a value that is not
\* finite, and processVideo rejects
VideoSeekThrows ==
  /\ pout.stage = "frames"
  /\ MoreFrames
  /\ ~timestamp(pin, frameCount(pin), Len(pout.frames)).finite
  /\ pout' = [pout EXCEPT !.stage = "rejected"]
  /\ UNCHANGED <<appVars, pin>>

\* After the loop: the frames are returned
VideoFramesReturned ==
  /\ pout.stage = "frames"
  /\ ~MoreFrames
  /\ pout' = [pout EXCEPT !.stage = "done"]
  /\ UNCHANGED <<appVars, pin>>

SpecVideo == InitVideo /\ [][VideoFrameCaptured \/ VideoSeekThrows \/ VideoFramesReturned]_vars

\* C16: for every duration, zero and non-finite included, extraction ends
\* with between 3 and 10 frames, as many as ceil(duration / 15) clamped to
\* 3..10, and their timestamps are strictly increasing
C16_FrameCountClampedAndIncreasing ==
  pout.stage # "frames"
    => /\ pout.stage = "done"
       /\ Len(pout.frames) >= 3 /\ Len(pout.frames) <= 10
       /\ pin.kind = "finite" =>
            LET ceil == (pin.secs + 14) \div 15
            IN  Len(pout.frames) = IF ceil < 3 THEN 3 ELSE IF ceil > 10 THEN 10 ELSE ceil
       /\ \A i \in 1..(Len(pout.frames) - 1) :
            pout.frames[i].timestamp.num * pout.frames[i + 1].timestamp.den
              < pout.frames[i + 1].timestamp.num * pout.frames[i].timestamp.den

\* ------------------------------------------ OutputSelector: the options
InitOutputs ==
  /\ AppInit
  /\ pin \in ClassifyInputs
  /\ pout = [stage |-> 0, type |-> "none", outputs |-> <<>>]

\* An accepted file is processed and becomes the pending file
PendingFileClassified ==
  /\ pout.stage = 0
  /\ isFileSupported(pin.fileType, pin.fileName)
  /\ pout' = [pout EXCEPT !.stage = 1, !.type = detectFileType(pin.fileType, pin.fileName)]
  /\ UNCHANGED <<appVars, pin>>

\* OutputSelector renders with fileType = pendingFile.type
SelectorRendered ==
  /\ pout.stage = 1
  /\ pout' = [pout EXCEPT !.stage = 2, !.outputs = getApplicableOutputs(pout.type)]
  /\ UNCHANGED <<appVars, pin>>

SpecOutputs == InitOutputs /\ [][PendingFileClassified \/ SelectorRendered]_vars

MaxItems == 52

\* FileProcessor.process.  The file's size stands for what its processor
\* finds in it: the pages of a PDF, the data rows of a table, the seconds
\* of a video, and whether an image or a text file has any content.  A
\* field of ExtractedContent that is absent is the empty sequence: the
\* reader of the content tests each field for truthiness or length only.
process(file) ==
  LET type == detectFileType(file.fileType, file.fileName)
      n == file.size
      headers == << <<"a">>, <<"b">> >>
      rows == [i \in 1..n |-> <<Num(i - 1 + file.first), Str(<<"x">>)>>]
      NoContent == [text |-> <<>>, pages |-> <<>>, data |-> <<>>,
                    frames |-> <<>>, rawBase64 |-> <<>>]
      pages == [i \in 1..maxPages(n) |->
                  [pageNumber |-> i, text |-> <<"words">>, imageBase64 |-> <<"png">>]]
      duration == Seconds(n)
      frames == [i \in 1..frameCount(duration) |->
                   [timestamp |-> timestamp(duration, frameCount(duration), i - 1),
                    imageBase64 |-> <<"jpeg">>]]
      csv == processCsv(CsvText(headers, rows))
      extractedContent ==
        CASE type = "image" ->
               [NoContent EXCEPT !.rawBase64 = IF n = 0 THEN <<>> ELSE <<"base64">>]
          [] type = "pdf" ->
               [NoContent EXCEPT !.pages = pages, !.text = <<"[Page 1]">>]
          [] type = "csv" ->
               [NoContent EXCEPT !.data = csv.data, !.text = csv.text]
          [] type = "excel" ->
               [NoContent EXCEPT
                  !.data = [r \in 1..n |-> [i \in 1..Len(headers) |->
                                              [key |-> headers[i], value |-> rows[r][i]]]],
                  !.text = <<"Data with rows and columns">>]
          [] type = "video" ->
               [NoContent EXCEPT !.frames = frames, !.text = <<"Video:">>]
          [] OTHER ->
               [NoContent EXCEPT !.text = IF n = 0 THEN <<>> ELSE <<"words">>]
  IN  [type |-> type,
       mimeType |-> file.fileType,
       fileName |-> file.fileName,
       extractedContent |-> extractedContent,
       metadata |-> IF type \in {"csv", "excel"}
                    THEN extractMetadata(extractedContent)
                    ELSE [rowCount |-> [defined |-> FALSE, n |-> 0],
                          columnCount |-> [defined |-> FALSE, n |-> 0]]]

\* A part of the prompt: the block it belongs to, inline image data or
\* text, and for the data table the counts and rows the text is made of
Part(block, inline, mimeType, body) ==
  [block |-> block, inline |-> inline, mimeType |-> mimeType, body |-> body,
   table |-> [totalRows |-> [defined |-> FALSE, n |-> 0], headers |-> <<>>,
              rows |-> <<>>, more |-> [noted |-> FALSE, n |-> 0]]]

\* the PRIMARY SOURCE block, emitted whether or not there is text
textBlockUnconditional(parsedFile) ==
  << Part("text", FALSE, <<>>,
          <<"PRIMARY SOURCE CONTENT">> \o parsedFile.extractedContent.text
            \o <<"END OF PRIMARY SOURCE">>) >>

\* if (parsedFile.extractedContent.text) parts.push(...)
textBlock(parsedFile) ==
  IF parsedFile.extractedContent.text # <<>>
  THEN << Part("text", FALSE, <<>>,
               <<"PRIMARY SOURCE CONTENT">> \o parsedFile.extractedContent.text
                 \o <<"END OF PRIMARY SOURCE">>) >>
  ELSE <<>>

\* the PRIMARY DATA TABLE part: row[h] || '' renders a falsy value (0, the
\* empty string, a missing key) as the empty string
tableBlock(parsedFile) ==
  LET data == parsedFile.extractedContent.data
      headers == [i \in 1..Len(data[1]) |-> data[1][i].key]
      rows == SubSeq(data, 1, IF Len(data) < 50 THEN Len(data) ELSE 50)
      Rendered(row, h) ==
        IF \E i \in 1..Len(row) : row[i].key = h
        THEN LET v == row[CHOOSE i \in 1..Len(row) : row[i].key = h].value
             IN  IF v.kind = "number"
                 THEN (IF v.num = 0 THEN <<>> ELSE NumberToString(v.num))
                 ELSE v.str
        ELSE <<>>
  IN  IF Len(data) > 0
      THEN << [Part("table", FALSE, <<>>, <<"PRIMARY DATA TABLE">>) EXCEPT
                 !.table = [totalRows |-> parsedFile.metadata.rowCount,
                            headers |-> headers,
                            rows |-> [r \in 1..Len(rows) |->
                                        [i \in 1..Len(headers) |->
                                           [key |-> headers[i],
                                            value |-> Rendered(rows[r], headers[i])]]],
                            more |-> IF Len(data) > 50
                                     THEN [noted |-> TRUE, n |-> Len(data) - 50]
                                     ELSE [noted |-> FALSE, n |-> 0]]] >>
      ELSE <<>>

buildContentParts(parsedFile, additionalInstructions) ==
  LET content == parsedFile.extractedContent
      Text(block, body) == Part(block, FALSE, <<>>, body)
      RECURSIVE Concat(_)
      Concat(seqs) == IF seqs = <<>> THEN <<>> ELSE Head(seqs) \o Concat(Tail(seqs))
      instruction ==
        << Text("instruction",
                <<"CREATE AN INTERACTIVE TRAINING MODULE">> \o additionalInstructions) >>
      pagePart(i) ==
        << Text("pdf", <<"--- PAGE">> \o NumberToString(content.pages[i].pageNumber)
                         \o content.pages[i].text) >>
          \o (IF content.pages[i].imageBase64 # <<>> /\ i - 1 < 5
              THEN << Part("pdf", TRUE, <<"image/", "png">>, content.pages[i].imageBase64) >>
              ELSE <<>>)
      pdf ==
        IF Len(content.pages) > 0
        THEN << Text("pdf", <<"=== PDF DOCUMENT">>) >>
               \o Concat([i \in 1..Len(content.pages) |-> pagePart(i)])
               \o << Text("pdf", <<"=== END PDF ===">>) >>
        ELSE <<>>
      framePart(i) ==
        << Text("video", <<"Frame">> \o NumberToString(i)),
           Part("video", TRUE, <<"image/", "jpeg">>, content.frames[i].imageBase64) >>
      video ==
        IF Len(content.frames) > 0
        THEN << Text("video", <<"=== VIDEO CONTENT ===">>) >>
               \o Concat([i \in 1..Len(content.frames) |-> framePart(i)])
               \o << Text("video", <<"=== END VIDEO ===">>) >>
        ELSE <<>>
      image ==
        IF content.rawBase64 # <<>> /\ parsedFile.type = "image"
        THEN << Text("image", <<"=== IMAGE FILE ===">>),
                Part("image", TRUE, parsedFile.mimeType, content.rawBase64),
                Text("image", <<"=== END IMAGE ===">>) >>
        ELSE <<>>
  IN  instruction \o textBlock(parsedFile) \o pdf \o tableBlock(parsedFile) \o video \o image

\* Uploaded files the gate accepts, with a declared media type that is
\* empty, generic or specific, and a name with a supported extension
PromptFiles ==
  LET types == {<<>>, <<"application/", "octet-stream">>, <<"image/", "png">>,
                <<"application/", "pdf">>, <<"text/", "csv">>, <<"text/", "plain">>,
                <<"video/", "mp4">>}
      names == {<<"a", ".png">>, <<"a", ".pdf">>, <<"a", ".csv">>, <<"a", ".xlsx">>,
                <<"a", ".txt">>, <<"a", ".mp4">>}
  IN  {f \in [fileType : types, fileName : names, size : 0..MaxItems, first : {0, 1}] :
         /\ isFileSupported(f.fileType, f.fileName)
         /\ detectFileType(f.fileType, f.fileName) = "pdf" => f.size >= 1}

InitPrompt ==
  /\ AppInit
  /\ pin \in PromptFiles
  /\ pout = [stage |-> 0, parsedFile |-> [type |-> "none"], parts |-> <<>>]

\* handleGenerate: parsedFile = await fileProcessor.process(file)
FileProcessed ==
  /\ pout.stage = 0
  /\ pout' = [pout EXCEPT !.stage = 1, !.parsedFile = process(pin)]
  /\ UNCHANGED <<appVars, pin>>

\* generateTraining: contents built from the parsed file
PartsBuilt ==
  /\ pout.stage = 1
  /\ pout' = [pout EXCEPT !.stage = 2, !.parts = buildContentParts(pout.parsedFile, <<>>)]
  /\ UNCHANGED <<appVars, pin>>

SpecPrompt == InitPrompt /\ [][FileProcessed \/ PartsBuilt]_vars

\* C18: for a parsed file with data rows there is one PRIMARY DATA TABLE
\* part; its Total Rows is the number of data rows; it renders the first
\* min(50, rowCount) rows in order, each header with the row's actual value
\* (a number in digits, 0 included); the more-rows note is there exactly
\* when rowCount > 50 and then counts rowCount - 50
C18_DataTableRendersRows ==
  (pout.stage = 2 /\ Len(pout.parsedFile.extractedContent.data) > 0)
    => LET data == pout.parsedFile.extractedContent.data
           tables == {i \in 1..Len(pout.parts) : pout.parts[i].block = "table"}
           Actual(v) == IF v.kind = "number" THEN NumberToString(v.num) ELSE v.str
       IN  /\ Cardinality(tables) = 1
           /\ \A p \in tables :
                LET t == pout.parts[p].table
                IN  /\ t.totalRows = [defined |-> TRUE, n |-> Len(data)]
                    /\ Len(t.rows) = IF Len(data) < 50 THEN Len(data) ELSE 50
                    /\ \A r \in 1..Len(t.rows) :
                         /\ Len(t.rows[r]) = Len(data[r])
                         /\ \A c \in 1..Len(data[r]) :
                              /\ t.rows[r][c].key = data[r][c].key
                              /\ t.rows[r][c].value = Actual(data[r][c].value)
                    /\ t.more.noted = (Len(data) > 50)
                    /\ t.more.noted => t.more.n = Len(data) - 50

BlockOrder == <<"instruction", "text", "pdf", "table", "video", "image">>

BlockRank(b) == CHOOSE k \in 1..Len(BlockOrder) : BlockOrder[k] = b

BlockEmitted(b) == \E i \in 1..Len(pout.parts) : pout.parts[i].block = b

\* C19: the parts come in the order instruction, source text, PDF pages,
\* data table, video frames, image; the instruction is always there and
\* every other block is there exactly when its field of the extracted
\* content is non-empty; no part has empty content
C19_BlocksInOrderAndOnlyForContent ==
  pout.stage = 2
    => LET content == pout.parsedFile.extractedContent
           parts == pout.parts
       IN  /\ Len(parts) >= 1 /\ parts[1].block = "instruction"
           /\ \A i, j \in 1..Len(parts) :
                i < j => BlockRank(parts[i].block) <= BlockRank(parts[j].block)
           /\ BlockEmitted("text") = (content.text # <<>>)
           /\ BlockEmitted("pdf") = (content.pages # <<>>)
           /\ BlockEmitted("table") = (content.data # <<>>)
           /\ BlockEmitted("video") = (content.frames # <<>>)
           /\ BlockEmitted("image") = (content.rawBase64 # <<>>)
           /\ \A i \in 1..Len(parts) : parts[i].body # <<>>

C19_Witness ==
  /\ pout.stage = 2
  /\ pout.parsedFile.type = "csv"
  /\ Len(pout.parsedFile.extractedContent.data) > 0
  /\ BlockEmitted("text") /\ BlockEmitted("table")
  /\ ~BlockEmitted("pdf") /\ ~BlockEmitted("image")

\* C20: for a file classified image, pdf or video, every inline image part
\* of the prompt has a media type that is not empty and is an image type
C20_InlineImagesCarryImageMediaType ==
  (pout.stage = 2 /\ pout.parsedFile.type \in {"image", "pdf", "video"})
    => \A i \in 1..Len(pout.parts) :
         pout.parts[i].inline
           => /\ pout.parts[i].mimeType # <<>>
              /\ StartsWith(ToLowerCase(pout.parts[i].mimeType), <<"image/">>)

\* ------------------------------------------------ history and artifacts
\* C21: the artifact handleExport writes carries the id, name, html,
\* outputType, sourceFileType and timestamp of the creation shown, and
\* importing an artifact makes a creation with the same fields the active
\* one; an id and a timestamp are generated only for an artifact without
\* them, the id new and the timestamp read from the clock
C21_ExportImportRoundTrip ==
  [][/\ handleExport
          => \E d \in exported' :
               /\ d.id = activeCreation.id
               /\ d.name = activeCreation.name
               /\ d.html = activeCreation.html
               /\ d.outputType = activeCreation.outputType
               /\ d.sourceFileType = activeCreation.sourceFileType
               /\ d.timestamp = <<activeCreation.timestamp>>
     /\ \A d \in exported \cup ForeignArtifacts :
          (handleImportFile(d) /\ d.html # <<>> /\ d.name # <<>>)
            => /\ activeCreation'.name = d.name
               /\ activeCreation'.html = d.html
               /\ activeCreation'.outputType = d.outputType
               /\ activeCreation'.sourceFileType = d.sourceFileType
               /\ IF d.id # 0 THEN activeCreation'.id = d.id
                  ELSE /\ activeCreation'.id # 0
                       /\ \A i \in 1..Len(history) : history[i].id # activeCreation'.id
               /\ IF d.timestamp # Absent THEN activeCreation'.timestamp = d.timestamp[1]
                  ELSE activeCreation'.timestamp \in ClockReadings]_vars

\* a creation of the history was opened, exported, and its artifact imported
C21_Witness ==
  /\ lastStep = Step("import", FALSE, TRUE)
  /\ activeCreation = SavedHistory[1]
  /\ \E d \in exported : d.id = SavedHistory[1].id /\ d.html = SavedHistory[1].html

\* a step in which the refinement of slot s completes and installs its result
RefinementInstalls(s) ==
  /\ tasks[s].kind = "refine" /\ tasks[s].pc = "refineApp"
  /\ tasks'[s] = NoTask
  /\ lastStep' = Step("refine", FALSE, TRUE)

\* C22: a successful refinement leaves the history with the same length and
\* the same ids in the same positions; entries with another id are
\* unchanged, and the refined entry keeps everything but html and timestamp
C22_RefinementReplacesInPlace ==
  [][\A s \in Slots :
       RefinementInstalls(s)
         => /\ Len(history') = Len(history)
            /\ \A i \in 1..Len(history) :
                 /\ history'[i].id = history[i].id
                 /\ history[i].id # tasks[s].creation.id => history'[i] = history[i]
                 /\ history'[i].name = history[i].name
                 /\ history'[i].outputType = history[i].outputType
                 /\ history'[i].sourceFileType = history[i].sourceFileType]_vars

C22_Witness ==
  /\ lastStep = Step("refine", FALSE, TRUE)
  /\ Len(history) = 2
  /\ history[1] = SavedHistory[1]
  /\ history[2].id = SavedHistory[2].id
  /\ history[2].html = <<"<q>">>

\* C23: the history is ordered most recent first: no entry is older than
\* an entry after it
C23_HistoryMostRecentFirst ==
  \A i, j \in 1..Len(history) :
    i < j => history[i].timestamp >= history[j].timestamp

\* ------------------------------------------- selection and in-flight calls
\* C24: the output type of every generation call in flight is one of the
\* entries of getApplicableOutputs for the type of the file it is for
C24_GenerationTypeIsApplicable ==
  \A s \in Slots :
    (tasks[s].kind = "confirm" /\ tasks[s].pc = "generate")
      => \E i \in 1..Len(getApplicableOutputs(tasks[s].file.type)) :
           getApplicableOutputs(tasks[s].file.type)[i].id = tasks[s].outType

\* C25: handleCancelSelection clears the pending file, and an uploaded file
\* is made pending once; so no generation is issued for a cancelled file
\* if every generation call is issued for the file that is pending at
\* that moment
C25_NoGenerationForCancelledFile ==
  [][\A s \in Slots :
       (/\ tasks'[s].kind = "confirm" /\ tasks'[s].pc = "generate"
        /\ tasks[s].pc # "generate")
         => pendingFile = tasks'[s].file]_vars

\* C26: isGenerating is true while a generateTraining call is in flight,
\* and isRefining is true while a refineApp call is in flight
C26_BusyFlagsTrackCalls ==
  \A s \in Slots :
    /\ (tasks[s].kind = "confirm" /\ tasks[s].pc = "generate") => isGenerating
    /\ (tasks[s].kind = "refine" /\ tasks[s].pc = "refineApp") => isRefining

\* C27: when a refinement completes with a result, the active creation
\* changes only if it is still the creation the refinement was started for
C27_RefinementRespectsActiveCreation ==
  [][\A s \in Slots :
       (/\ tasks[s].kind = "refine" /\ tasks[s].pc = "refineApp"
        /\ tasks'[s] = NoTask
        /\ lastStep'.op = "refine" /\ ~lastStep'.alert
        /\ activeCreation.id # tasks[s].creation.id)
         => activeCreation' = activeCreation]_vars

\* C30: while the output selector is open for a pending file, the pending
\* file and the selected output type are cleared only by
\* handleCancelSelection or by the completion of the generation call made
\* for that file
C30_PendingFileClearedOnlyByItsOwnFlow ==
  [][(/\ ModalOpen
      /\ \/ pendingFile' # pendingFile
         \/ (selectedOutputType # NoOutput /\ selectedOutputType' = NoOutput))
       => \/ handleCancelSelection
          \/ \E s \in Slots :
               /\ tasks[s].kind = "confirm" /\ tasks[s].pc = "generate"
               /\ tasks[s].file = pendingFile
               /\ tasks'[s] = NoTask]_vars

\* C28: the ids of the entries of the history are pairwise distinct
C28_HistoryIdsDistinct ==
  \A i, j \in 1..Len(history) : history[i].id = history[j].id => i = j

\* an artifact whose id is in the history has been imported
C28_Witness ==
  /\ lastStep = Step("import", FALSE, TRUE)
  /\ activeCreation.id = SavedHistory[2].id
  /\ \E i \in 1..Len(history) : history[i].id = activeCreation.id

\* C29: whenever a creation is active, the history has an entry with its
\* id and its html
C29_ActiveCreationIsInHistory ==
  activeCreation # NoCreation
    => \E i \in 1..Len(history) :
         history[i].id = activeCreation.id /\ history[i].html = activeCreation.html

====
